---------------------------- MODULE Spec2Model ----------------------------
(***************************************************************************)
(* QOI-family encoder with an islands index (sumyiren/qoi-rust).           *)
(*                                                                         *)
(* The model follows src/src/encode.rs (Encoder, encode_impl) and          *)
(* src/src/island.rs (Islands, bfs).  The pieces of the crate that are not *)
(* part of the source tree at hand (pixel op-codes, hash, Writer, Header,  *)
(* the pixel decoder) follow the specification text.                       *)
(***************************************************************************)
EXTENDS Integers, Sequences, FiniteSets, TLC

VARIABLES
    data,           \* caller's raw byte buffer (&[u8])
    width,          \* caller's width argument
    height,         \* caller's height argument
    pc,             \* position of the caller / encoder / decoder
    header,         \* Encoder.header
    buf_len,        \* length of the output buffer handed to encode_to_buf
    head,           \* bytes written to the header part of the output buffer
    buf,            \* Writer over the tail: [cap, bytes]
    index,          \* encode_impl: index cache
    px_prev,        \* encode_impl: previous pixel
    hash_prev,      \* encode_impl: hash of the previous pixel
    run,            \* encode_impl: run counter
    index_allowed,  \* encode_impl: INDEX may stand for a run of one
    points,         \* encode_impl: foreground points per row bucket
    row,            \* encode_impl: tracked row
    col,            \* encode_impl: tracked column
    i,              \* encode_impl: index of the next pixel
    islands,        \* encode_impl: island list after the parallel phase
    result,         \* what the encode call returned
    run_no,         \* 1 for the first encode call, 2 for a repeated one
    prev_out,       \* output of the first call, kept by the caller
    dec,            \* decoder state
    idec,           \* Islands::decode call: [data, n_islands, kind, islands]
    point_set,      \* Islands::try_new: its argument `points`
    used,           \* Islands::try_new: used_points
    found,          \* Islands::try_new: its set `islands`
    cur_island,     \* Islands::try_new: `island`, of the traversal under way
    queue,          \* bfs: q
    marked,         \* bfs: the points this call has inserted into used_points
    workers         \* encode_impl: the parallel map, per bucket [state, out]

encVars ==
    <<index, px_prev, hash_prev, run, index_allowed, points, row, col, i>>

\* the state of Islands::try_new and bfs called on their own
bfsVars ==
    <<point_set, used, found, cur_island, queue, marked>>

vars ==
    <<data, width, height, pc, header, buf_len, head, buf, index, px_prev,
      hash_prev, run, index_allowed, points, row, col, i, islands, result,
      run_no, prev_out, dec, idec, point_set, used, found, cur_island,
      queue, marked, workers>>

---------------------------------------------------------------------------
(* Bounds of the model *)

\* one-row images of at most MaxRich pixels range over the whole palette
MaxRich ==
    3

\* images of at most MaxBin pixels range over all background/foreground masks
MaxBin ==
    6

\* the largest images have MaxPixels pixels ...
MaxPixels ==
    9

\* ... and, above MaxBin pixels, at most MaxFg foreground pixels
MaxFg ==
    2

---------------------------------------------------------------------------
(* Program constants *)

QOI_OP_INDEX ==
    0

QOI_OP_DIFF ==
    64

QOI_OP_LUMA ==
    128

QOI_OP_RUN ==
    192

QOI_OP_RGB ==
    254

QOI_OP_RGBA ==
    255

QOI_HEADER_SIZE ==
    22

QOI_PADDING_SIZE ==
    8

QOI_PADDING ==
    <<0, 0, 0, 0, 0, 0, 0, 0>>

QOI_MAGIC ==
    <<113, 111, 105, 102>>

\* let threads = 8;
threads ==
    8

\* run == 62
MaxRun ==
    62

\* let chunk_size = 16;
chunk_size ==
    16

---------------------------------------------------------------------------
(* Helpers *)

Min(a, b) ==
    IF a < b THEN a ELSE b

\* u32::to_be + transmute: the four bytes of x, most significant first
to_be_bytes(x) ==
    << (x \div 16777216) % 256, (x \div 65536) % 256, (x \div 256) % 256, x % 256 >>

\* u32::from_be_bytes
from_be_bytes(b) ==
    b[1] * 16777216 + b[2] * 65536 + b[3] * 256 + b[4]

RECURSIVE Flatten(_)
Flatten(ss) ==
    IF ss = << >> THEN << >> ELSE Head(ss) \o Flatten(Tail(ss))

RECURSIVE Perms(_)
\* every order in which a HashSet may be iterated
Perms(S) ==
    IF S = {} THEN { << >> }
    ELSE UNION { { <<x>> \o p : p \in Perms(S \ {x}) } : x \in S }

---------------------------------------------------------------------------
(* Pixel<N> *)

\* Pixel::<N>::new(): all components zero
Pixel_new(N) ==
    [k \in 1..N |-> 0]

\* with_a(0xff): sets alpha when there is one
with_a(px, a) ==
    IF Len(px) = 4 THEN [px EXCEPT ![4] = a] ELSE px

\* as_rgba(0xff): the pixel as RGBA, alpha defaulting to with_a
as_rgba(px, a) ==
    IF Len(px) = 4 THEN px ELSE px \o <<a>>

\* a_or(v)
a_or(px, v) ==
    IF Len(px) = 4 THEN px[4] ELSE v

\* hash used as the index-cache key
hash_index(px) ==
    (px[1] * 3 + px[2] * 5 + px[3] * 7 + a_or(px, 255) * 11) % 64

wrapping_sub(a, b) ==
    (a - b + 256) % 256

wrapping_add(a, b) ==
    (a + b) % 256

\* Pixel::encode_into: the op-code bytes for px given the previous pixel
encode_into(px, prev) ==
    IF Len(px) = 4 /\ px[4] # prev[4]
    THEN <<QOI_OP_RGBA, px[1], px[2], px[3], px[4]>>
    ELSE
      LET vr == wrapping_sub(px[1], prev[1])
          vg == wrapping_sub(px[2], prev[2])
          vb == wrapping_sub(px[3], prev[3])
          vr_2 == wrapping_add(vr, 2)
          vg_2 == wrapping_add(vg, 2)
          vb_2 == wrapping_add(vb, 2)
          vg_r_8 == wrapping_add(wrapping_sub(vr, vg), 8)
          vg_b_8 == wrapping_add(wrapping_sub(vb, vg), 8)
          vg_32 == wrapping_add(vg, 32)
      IN  IF vr_2 <= 3 /\ vg_2 <= 3 /\ vb_2 <= 3
          THEN << QOI_OP_DIFF + vr_2 * 16 + vg_2 * 4 + vb_2 >>
          ELSE IF vg_r_8 <= 15 /\ vg_b_8 <= 15 /\ vg_32 <= 63
          THEN << QOI_OP_LUMA + vg_32, vg_r_8 * 16 + vg_b_8 >>
          ELSE << QOI_OP_RGB, px[1], px[2], px[3] >>

---------------------------------------------------------------------------
(* Writer (BytesMut over the tail of the output buffer) *)

\* BytesMut::new(tail)
BytesMut_new(len) ==
    [cap |-> len, bytes |-> << >>, ok |-> TRUE]

\* write_many: fails, writing nothing, when the capacity is insufficient;
\* a failed writer stays failed (the `?` / unwrap leaves the function)
write_many(w, v) ==
    IF ~w.ok THEN w
    ELSE IF Len(v) <= w.cap
    THEN [cap |-> w.cap - Len(v), bytes |-> w.bytes \o v, ok |-> TRUE]
    ELSE [w EXCEPT !.ok = FALSE]

\* write_one
write_one(w, v) ==
    write_many(w, <<v>>)

---------------------------------------------------------------------------
(* Header *)

NoHeader ==
    [width |-> 0, height |-> 0, channels |-> 0, n_encode |-> 0, n_islands |-> 0]

\* Header::n_pixels
n_pixels_of(h) ==
    h.width * h.height

\* a bound that forgets the one op-code byte per pixel
encode_max_len_no_opcodes(w, h, channels) ==
    QOI_HEADER_SIZE + (w * h) * channels + QOI_PADDING_SIZE

\* encode_max_len(width, height, channels)
encode_max_len(w, h, channels) ==
    QOI_HEADER_SIZE + (w * h) * channels + (w * h) + QOI_PADDING_SIZE

\* Header::encode_max_len
Header_encode_max_len(h) ==
    QOI_HEADER_SIZE + n_pixels_of(h) * h.channels + n_pixels_of(h) + QOI_PADDING_SIZE

\* Encoder::required_buf_len
required_buf_len(h) ==
    Header_encode_max_len(h)

\* Header::encode: the fixed-size header block
Header_encode(h) ==
    QOI_MAGIC \o to_be_bytes(h.width) \o to_be_bytes(h.height)
      \o <<h.channels, 0>> \o to_be_bytes(h.n_encode) \o to_be_bytes(h.n_islands)

---------------------------------------------------------------------------
(* Islands (src/src/island.rs) *)

None ==
    << >>

NoIsland ==
    [top_left |-> None, btm_right |-> None]

\* a box that follows the rows only
grow_box_rows_only(island, point) ==
    LET tl == island.top_left
        br == island.btm_right
    IN  [top_left |-> IF tl = None THEN point
                      ELSE IF point[1] < tl[1] THEN <<point[1], tl[2]>> ELSE tl,
         btm_right |-> IF br = None THEN point
                       ELSE IF point[1] > br[1] THEN <<point[1], br[2]>> ELSE br]

\* the bounding-box update of bfs for one absorbed point.  top_left and
\* btm_right are copies taken by `if let Some(mut ..)`: both comparisons
\* read the copy, and the second assignment, when taken, overwrites the first.
grow_box(island, point) ==
    LET tl == island.top_left
        br == island.btm_right
        tl1 == IF tl = None THEN point
               ELSE IF point[2] < tl[2] THEN <<tl[1], point[2]>>
               ELSE IF point[1] < tl[1] THEN <<point[1], tl[2]>>
               ELSE tl
        br1 == IF br = None THEN point
               ELSE IF point[2] > br[2] THEN <<br[1], point[2]>>
               ELSE IF point[1] > br[1] THEN <<point[1], br[2]>>
               ELSE br
    IN  [top_left |-> tl1, btm_right |-> br1]

\* the neighbours without the one to the left
neighbours_no_left(point) ==
    (IF point[1] > 0 THEN << <<point[1] - 1, point[2]>> >> ELSE << >>)
      \o << <<point[1] + 1, point[2]>> >>
      \o << <<point[1], point[2] + 1>> >>

\* the neighbours bfs pushes, in the order it pushes them
neighbours(point) ==
    (IF point[1] > 0 THEN << <<point[1] - 1, point[2]>> >> ELSE << >>)
      \o << <<point[1] + 1, point[2]>> >>
      \o (IF point[2] > 0 THEN << <<point[1], point[2] - 1>> >> ELSE << >>)
      \o << <<point[1], point[2] + 1>> >>

\* a dequeued point taken whenever it is in the set, used or not
bfs_visits_any_member(point, pts, used_points) ==
    point \in pts

\* `points.contains(&point) && !used_points.contains(&point)`
bfs_visits(point, pts, used_points) ==
    point \in pts /\ point \notin used_points

RECURSIVE bfs_loop(_, _, _, _)
\* `while let Some(point) = q.pop_front()`
bfs_loop(pts, q, used_points, island) ==
    IF q = << >> THEN [used_points |-> used_points, island |-> island]
    ELSE LET point == Head(q)
         IN  IF bfs_visits(point, pts, used_points)
             THEN bfs_loop(pts, Tail(q) \o neighbours(point),
                           used_points \cup {point}, grow_box(island, point))
             ELSE bfs_loop(pts, Tail(q), used_points, island)

\* bfs(points, .., used_points, island, point)
bfs(pts, used_points, island, point) ==
    bfs_loop(pts, <<point>>, used_points, island)

RECURSIVE try_new_from(_, _, _)
\* Islands::try_new's `for point in points`: the HashSet is iterated in an
\* unspecified order and used points are skipped, so the next traversal
\* starts at any point not yet used.  The set of all island sets the loop
\* can end with.
try_new_from(pts, used_points, isl) ==
    IF pts \subseteq used_points THEN { isl }
    ELSE UNION {
           LET r == bfs(pts, used_points, NoIsland, point)
           IN  try_new_from(pts, r.used_points,
                 IF r.island.top_left # None /\ r.island.btm_right # None
                 THEN isl \cup { r.island } ELSE isl)
           : point \in pts \ used_points }

\* Islands::try_new / Islands::find_islands for one bucket
find_islands(pts) ==
    try_new_from(pts, {}, {})

\* the four integers of a record written least significant byte first
island_record_little_endian(island) ==
    LET le(x) == << x % 256, (x \div 256) % 256, (x \div 65536) % 256,
                    (x \div 16777216) % 256 >>
    IN  le(island.top_left[1]) \o le(island.top_left[2])
          \o le(island.btm_right[1]) \o le(island.btm_right[2])

\* the bytes of one island record
island_record(island) ==
    to_be_bytes(island.top_left[1]) \o to_be_bytes(island.top_left[2])
      \o to_be_bytes(island.btm_right[1]) \o to_be_bytes(island.btm_right[2])

RECURSIVE Islands_encode(_, _)
\* Islands::encode: four write_many calls per island, each unwrapped
Islands_encode(w, isl) ==
    IF isl = << >> THEN w
    ELSE LET r == island_record(Head(isl))
             w1 == write_many(w, SubSeq(r, 1, 4))
             w2 == write_many(w1, SubSeq(r, 5, 8))
             w3 == write_many(w2, SubSeq(r, 9, 12))
             w4 == write_many(w3, SubSeq(r, 13, 16))
         IN  Islands_encode(w4, Tail(isl))

RECURSIVE decode_chunks(_, _, _, _)
\* the loop of Islands::decode over data.chunks(chunk_size)
decode_chunks(d, n_islands, islands_count, isl) ==
    IF d = << >> THEN [kind |-> "Ok", islands |-> isl]
    ELSE LET chunk == SubSeq(d, 1, Min(chunk_size, Len(d)))
             rest == SubSeq(d, Len(chunk) + 1, Len(d))
             cnt == islands_count + 1
         IN  IF cnt > n_islands THEN [kind |-> "Ok", islands |-> isl]
             ELSE IF Len(chunk) % 4 # 0
             THEN [kind |-> "Panic", islands |-> isl]  \* cast_slice: size mismatch
             ELSE IF Len(chunk) \div 4 < 4
             THEN [kind |-> "Panic", islands |-> isl]  \* v[k]: index out of bounds
             ELSE decode_chunks(rest, n_islands, cnt,
                    isl \cup { [top_left |-> <<from_be_bytes(SubSeq(chunk, 1, 4)),
                                              from_be_bytes(SubSeq(chunk, 5, 8))>>,
                                btm_right |-> <<from_be_bytes(SubSeq(chunk, 9, 12)),
                                               from_be_bytes(SubSeq(chunk, 13, 16))>>] })

\* Islands::decode(data, n_islands)
Islands_decode(d, n_islands) ==
    decode_chunks(d, n_islands, 0, {})

---------------------------------------------------------------------------
(* Inputs of the encode entry points *)

\* pixel values that between them take every op-code: the all-zero
\* background, the encoder's initial previous pixel, small and medium
\* deltas, a far colour whose hash collides with another entry's, and
\* (3 channels) a wrap-around delta
Palette(N) ==
    IF N = 4
    THEN { <<0, 0, 0, 0>>, <<0, 0, 0, 255>>, <<1, 1, 1, 255>>,
           <<20, 20, 20, 255>>, <<200, 11, 0, 255>> }
    ELSE { <<0, 0, 0>>, <<1, 1, 1>>, <<20, 20, 20>>, <<200, 11, 0>>,
           <<255, 255, 255>> }

\* the foreground colour of the background/foreground images
Foreground(N) ==
    IF N = 4 THEN <<1, 1, 1, 255>> ELSE <<1, 1, 1>>

Dims(lo, hi) ==
    { d \in (1..hi) \X (1..hi) : d[1] * d[2] >= lo /\ d[1] * d[2] <= hi }

Image(pixels, w, h) ==
    [data |-> Flatten(pixels), width |-> w, height |-> h]

\* one-row images of every palette colouring
RichImages ==
    UNION { UNION { { Image(p, n, 1) : p \in [1..n -> Palette(N)] }
                    : n \in 1..MaxRich } : N \in {3, 4} }

MaskImage(N, d, mask) ==
    Image([k \in 1..(d[1] * d[2]) |-> IF k \in mask THEN Foreground(N) ELSE Pixel_new(N)],
          d[1], d[2])

BinaryImages ==
    UNION { UNION { { MaskImage(N, d, mask) : mask \in SUBSET (1..(d[1] * d[2])) }
                    : d \in Dims(1, MaxBin) } : N \in {3, 4} }

SparseImages ==
    UNION { UNION { { MaskImage(N, d, mask) :
                        mask \in { m \in SUBSET (1..(d[1] * d[2])) : Cardinality(m) <= MaxFg } }
                    : d \in Dims(MaxBin + 1, MaxPixels) } : N \in {3, 4} }

\* inputs Encoder::new rejects: an empty image, a length that is no multiple
\* of the pixel count, a channel count other than 3 or 4
RejectedInputs ==
    { [data |-> << >>, width |-> 0, height |-> 0],
      [data |-> << >>, width |-> 0, height |-> 1],
      [data |-> <<0, 0, 0>>, width |-> 1, height |-> 0],
      [data |-> <<1, 1, 1, 1, 1, 1, 1>>, width |-> 2, height |-> 1],
      [data |-> <<1, 1>>, width |-> 1, height |-> 1],
      [data |-> <<1, 1, 1, 1, 1>>, width |-> 1, height |-> 1] }

Inputs ==
    RichImages \cup BinaryImages \cup SparseImages \cup RejectedInputs

---------------------------------------------------------------------------
(* State of a call that has not started *)

NoResult ==
    [kind |-> "None", size |-> 0, required |-> 0]

NoDec ==
    [pos |-> 0, px |-> <<0, 0, 0, 255>>, index |-> [k \in 0..63 |-> <<0, 0, 0, 0>>],
     pixels |-> << >>, header |-> NoHeader, kind |-> "None"]

NoIdec ==
    [data |-> << >>, n_islands |-> 0, kind |-> "None", islands |-> {}]

NoBuf ==
    [cap |-> 0, bytes |-> << >>, ok |-> TRUE]

\* no call of Islands::try_new under way
BfsIdle ==
    /\ point_set = {}
    /\ used = {}
    /\ found = {}
    /\ cur_island = NoIsland
    /\ queue = << >>
    /\ marked = {}

\* the parallel map not started
WorkersIdle ==
    workers = [b \in 0..(threads - 1) |-> [state |-> "idle", out |-> << >>]]

EncIdle ==
    /\ index = [k \in 0..63 |-> <<0, 0, 0, 0>>]
    /\ px_prev = <<0, 0, 0, 255>>
    /\ hash_prev = 0
    /\ run = 0
    /\ index_allowed = FALSE
    /\ points = [b \in 0..(threads - 1) |-> {}]
    /\ row = 0
    /\ col = 0
    /\ i = 0

Init ==
    /\ \E img \in Inputs :
         /\ data = img.data
         /\ width = img.width
         /\ height = img.height
    /\ pc = "new"
    /\ header = NoHeader
    /\ buf_len = 0
    /\ head = << >>
    /\ buf = NoBuf
    /\ EncIdle
    /\ BfsIdle
    /\ WorkersIdle
    /\ islands = << >>
    /\ result = NoResult
    /\ run_no = 1
    /\ prev_out = [kind |-> "None", bytes |-> << >>]
    /\ dec = NoDec
    /\ idec = NoIdec

---------------------------------------------------------------------------
(* Encoder (src/src/encode.rs) *)

\* the bytes of the output buffer that hold the encoded image
Output ==
    head \o buf.bytes

\* the checks of Encoder::new without the comparison of the length
Encoder_new_result_no_length_check(d, w, h) ==
    LET size == Len(d)
        n_pixels == w * h
    IN  IF n_pixels = 0 THEN "EmptyImage"
        ELSE IF Min(size \div n_pixels, 255) \notin {3, 4} THEN "InvalidChannels"
        ELSE "Ok"

\* Header::try_new followed by the length and channel checks of Encoder::new
Encoder_new_result(d, w, h) ==
    LET size == Len(d)
        n_pixels == w * h
    IN  IF n_pixels = 0 THEN "EmptyImage"
        ELSE IF n_pixels * (size \div n_pixels) # size THEN "InvalidImageLength"
        ELSE IF Min(size \div n_pixels, 255) \notin {3, 4} THEN "InvalidChannels"
        ELSE "Ok"

\* Encoder::new
EncoderNew ==
    /\ pc = "new"
    /\ LET r == Encoder_new_result(data, width, height)
       IN  IF r = "Ok"
           THEN /\ header' = [width |-> width, height |-> height,
                              channels |-> Len(data) \div (width * height),
                              n_encode |-> 0, n_islands |-> 0]
                /\ pc' = "ready"
                /\ result' = result
           ELSE /\ header' = header
                /\ pc' = "done"
                /\ result' = [kind |-> r, size |-> 0, required |-> 0]
    /\ UNCHANGED <<bfsVars, workers>>
    /\ UNCHANGED <<data, width, height, buf_len, head, buf, encVars, islands,
                   run_no, prev_out, dec, idec>>

\* a check that only makes sure the header fits
buffer_too_small_header_only(len, size_required) ==
    len < QOI_HEADER_SIZE

\* the capacity check at the head of encode_to_buf
buffer_too_small(len, size_required) ==
    len < size_required

\* the locals of encode_impl before its loop
EncodeImplStart(N) ==
    /\ index' = [k \in 0..63 |-> Pixel_new(4)]
    /\ px_prev' = with_a(Pixel_new(N), 255)
    /\ hash_prev' = hash_index(with_a(Pixel_new(N), 255))
    /\ run' = 0
    /\ index_allowed' = FALSE
    /\ points' = [b \in 0..(threads - 1) |-> {}]
    /\ row' = 0
    /\ col' = 0
    /\ i' = 0

\* Encoder::encode_to_buf up to the call of encode_impl, for a buffer of len bytes
EnterEncodeToBuf(len) ==
    /\ buf_len' = len
    /\ IF buffer_too_small(len, required_buf_len(header))
       THEN /\ result' = [kind |-> "OutputBufferTooSmall", size |-> len,
                          required |-> required_buf_len(header)]
            /\ pc' = "done"
            /\ UNCHANGED <<buf, encVars>>
       ELSE /\ result' = NoResult
            /\ pc' = "loop"
            /\ buf' = BytesMut_new(len - QOI_HEADER_SIZE)
            /\ EncodeImplStart(header.channels)
    /\ UNCHANGED <<bfsVars, workers>>
    /\ UNCHANGED <<data, width, height, header, head, islands, run_no,
                   prev_out, dec, idec>>

\* the buffer Encoder::encode_to_vec allocates
vec_alloc_len(h) ==
    required_buf_len(h)

\* Encoder::encode_to_vec: vec![0; required_buf_len()] handed to encode_to_buf
encode_to_vec ==
    /\ pc = "ready"
    /\ EnterEncodeToBuf(vec_alloc_len(header))

\* Encoder::encode_to_buf called with a caller's buffer, one byte short of
\* required_buf_len() or longer by one island record
encode_to_buf ==
    /\ pc = "ready"
    /\ \E len \in { required_buf_len(header) - 1, required_buf_len(header) + chunk_size } :
         EnterEncodeToBuf(len)


\* data.chunks_exact(N): the k-th chunk, k from 0
chunk_at(d, N, k) ==
    SubSeq(d, k * N + 1, k * N + N)

\* a row counter that never advances
row_never_advances(r, c0, w) ==
    r

\* `if col >= header.width { row += 1; .. }`, c0 the column computed from i
row_after(r, c0, w) ==
    IF c0 >= w THEN r + 1 ELSE r

\* buckets that take the rows two by two
bucket_of_row_pairs(r) ==
    (r \div 2) % threads

\* a single bucket for every row
bucket_of_single(r) ==
    0

\* the bucket a foreground point of row r is recorded in
bucket_of(r) ==
    r % threads

\* background taken to be the opaque black the encoder starts from
is_foreground_opaque(px, zero_px) ==
    px # with_a(zero_px, 255)

\* px != zero_px
is_foreground(px, zero_px) ==
    px # zero_px

\* a run flushed only when it reaches the maximum
run_is_flushed_at_max_only(r, k, n_pixels) ==
    r = MaxRun

\* `run == 62 || i == n_pixels - 1`, r the counter after `run += 1`
run_is_flushed(r, k, n_pixels) ==
    r = MaxRun \/ k = n_pixels - 1

\* the cache left as it was
index_unchanged(idx, h, px_rgba) ==
    idx

\* the cache after a pixel that differs from the previous one: its slot
\* holds the pixel, whether it did before or is written now
index_after(idx, h, px_rgba) ==
    [idx EXCEPT ![h] = px_rgba]

\* a pending run flushed with its length instead of its length minus one
run_flush_byte_full_length(r, allowed, h) ==
    IF r = 1 /\ allowed THEN QOI_OP_INDEX + h ELSE QOI_OP_RUN + r

\* the byte a pending run is flushed as when a different pixel arrives
run_flush_byte(r, allowed, h) ==
    IF r = 1 /\ allowed THEN QOI_OP_INDEX + h ELSE QOI_OP_RUN + (r - 1)

\* one iteration of the pixel loop of encode_impl
PixelStep ==
    /\ pc = "loop"
    /\ i < Len(data) \div header.channels
    /\ LET N == header.channels
           n_pixels == Len(data) \div N
           c0 == i - row * header.width
           row1 == row_after(row, c0, header.width)
           col1 == IF c0 >= header.width THEN 0 ELSE c0
           px == chunk_at(data, N, i)
           zero_px == Pixel_new(N)
           px_rgba == as_rgba(px, 255)
           h == hash_index(px_rgba)
           w0 == IF run # 0
                 THEN write_one(buf, run_flush_byte(run, index_allowed, hash_prev))
                 ELSE buf
           w1 == IF index[h] = px_rgba
                 THEN write_one(w0, QOI_OP_INDEX + h)
                 ELSE write_many(w0, encode_into(px, px_prev))
       IN  /\ row' = row1
           /\ col' = col1
           /\ points' = IF is_foreground(px, zero_px)
                        THEN [points EXCEPT ![bucket_of(row1)] = @ \cup { <<row1, col1>> }]
                        ELSE points
           /\ IF px = px_prev
              THEN /\ IF run_is_flushed(run + 1, i, n_pixels)
                      THEN /\ buf' = write_one(buf, QOI_OP_RUN + (run + 1 - 1))
                           /\ run' = 0
                      ELSE /\ buf' = buf
                           /\ run' = run + 1
                   /\ UNCHANGED <<index, px_prev, hash_prev, index_allowed>>
              ELSE /\ buf' = w1
                   /\ run' = 0
                   /\ index_allowed' = TRUE
                   /\ hash_prev' = h
                   /\ index' = index_after(index, h, px_rgba)
                   /\ px_prev' = px
           /\ i' = i + 1
           /\ IF buf'.ok
              THEN /\ pc' = "loop"
                   /\ result' = result
              ELSE /\ pc' = "done"
                   /\ result' = [kind |-> "WriteFailed", size |-> 0, required |-> 0]
    /\ UNCHANGED <<bfsVars, workers>>
    /\ UNCHANGED <<data, width, height, header, buf_len, head, islands, run_no,
                   prev_out, dec, idec>>

RECURSIVE bucket_outcomes(_, _)
\* points.par_iter().map(find_islands).reduce(Vec::new, extend): the lists
\* the reduction can yield for buckets b.. - the buckets in order, each
\* bucket's islands in the order its set is iterated in
bucket_outcomes(pts, b) ==
    IF b = threads THEN { << >> }
    ELSE { x \o y : x \in UNION { Perms(s) : s \in find_islands(pts[b]) },
                    y \in bucket_outcomes(pts, b + 1) }

\* a reduction that waits for the worker of bucket 0 only
workers_joined_first_only(w) ==
    w[0].state = "done"

\* the parallel map and its reduction have finished: every bucket's worker
\* has returned
workers_joined(w) ==
    \A b \in DOMAIN w : w[b].state = "done"

\* the parallel island detection after the pixel pass
FindIslands ==
    /\ pc = "loop"
    /\ i = Len(data) \div header.channels
    /\ \E isl \in bucket_outcomes(points, 0) : islands' = isl
    /\ pc' = "islands"
    /\ UNCHANGED <<bfsVars, workers>>
    /\ UNCHANGED <<data, width, height, header, buf_len, head, buf, encVars,
                   result, run_no, prev_out, dec, idec>>

\* a count that leaves out the padding marker
bytes_written_without_padding(cap, w) ==
    cap - w.cap - QOI_PADDING_SIZE

\* `cap.saturating_sub(buf.capacity())`: the bytes written into a buffer
\* that had cap bytes of capacity
bytes_written(cap, w) ==
    IF cap >= w.cap THEN cap - w.cap ELSE 0

\* the padding marker first, the island records after it
write_trailer_padding_first(w, isl) ==
    Islands_encode(write_many(w, QOI_PADDING), isl)

\* what encode_impl writes after the op-codes
write_trailer(w, isl) ==
    write_many(Islands_encode(w, isl), QOI_PADDING)

\* Islands::encode, the padding write and the return of encode_impl,
\* then the header back-fill of encode_to_buf
WriteTrailer ==
    /\ pc = "islands"
    /\ LET w1 == Islands_encode(buf, islands)
           w2 == write_trailer(buf, islands)
           n_encode == bytes_written(buf_len - QOI_HEADER_SIZE, w2)
       IN  /\ buf' = w2
           /\ IF ~w1.ok
              THEN /\ result' = [kind |-> "Panic", size |-> 0, required |-> 0]
                   /\ UNCHANGED <<header, head>>
              ELSE IF ~w2.ok
              THEN /\ result' = [kind |-> "WriteFailed", size |-> 0, required |-> 0]
                   /\ UNCHANGED <<header, head>>
              ELSE /\ header' = [header EXCEPT !.n_encode = n_encode,
                                               !.n_islands = Len(islands)]
                   /\ head' = Header_encode(header')
                   /\ result' = [kind |-> "Ok", size |-> QOI_HEADER_SIZE + n_encode,
                                 required |-> 0]
    /\ pc' = "done"
    /\ UNCHANGED <<bfsVars, workers>>
    /\ UNCHANGED <<data, width, height, buf_len, encVars, islands, run_no,
                   prev_out, dec, idec>>

\* the caller keeps the first output and encodes the same image again,
\* into a buffer of the same length
EncodeAgain ==
    /\ pc = "done"
    /\ run_no = 1
    /\ result.kind \in {"Ok", "Panic", "WriteFailed"}
    /\ run_no' = 2
    /\ prev_out' = [kind |-> result.kind, bytes |-> Output]
    /\ head' = << >>
    /\ islands' = << >>
    /\ result' = NoResult
    /\ pc' = "loop"
    /\ buf' = BytesMut_new(buf_len - QOI_HEADER_SIZE)
    /\ EncodeImplStart(header.channels)
    /\ UNCHANGED <<bfsVars, workers>>
    /\ UNCHANGED <<data, width, height, header, buf_len, dec, idec>>

---------------------------------------------------------------------------
(* Decoder: header, op-code stream, padding marker, island records *)

\* Header::decode: the header a block of QOI_HEADER_SIZE bytes carries
Header_decode(b) ==
    [width |-> from_be_bytes(SubSeq(b, 5, 8)),
     height |-> from_be_bytes(SubSeq(b, 9, 12)),
     channels |-> b[13],
     n_encode |-> from_be_bytes(SubSeq(b, 15, 18)),
     n_islands |-> from_be_bytes(SubSeq(b, 19, 22))]

\* the failure signal of Header::decode, or "Ok"
Header_decode_result(b) ==
    IF Len(b) < QOI_HEADER_SIZE THEN "UnexpectedEndOfStream"
    ELSE IF SubSeq(b, 1, 4) # QOI_MAGIC THEN "InvalidMagic"
    ELSE IF b[13] \notin {3, 4} THEN "InvalidChannels"
    ELSE IF from_be_bytes(SubSeq(b, 5, 8)) * from_be_bytes(SubSeq(b, 9, 12)) = 0
    THEN "InvalidDimensions"
    ELSE "Ok"

\* the decoder is handed the bytes an encode call returned
DecodeStart ==
    /\ pc = "done"
    /\ result.kind = "Ok"
    /\ LET r == Header_decode_result(Output)
       IN  IF r = "Ok"
           THEN /\ dec' = [NoDec EXCEPT !.pos = QOI_HEADER_SIZE + 1,
                                        !.header = Header_decode(Output),
                                        !.kind = "Running"]
                /\ pc' = "decode"
           ELSE /\ dec' = [NoDec EXCEPT !.kind = r]
                /\ pc' = "decoded"
    /\ UNCHANGED <<bfsVars, workers>>
    /\ UNCHANGED <<data, width, height, header, buf_len, head, buf, encVars,
                   islands, result, run_no, prev_out, idec>>

\* the length in bytes of the op-code starting with byte b1
op_len(b1) ==
    IF b1 = QOI_OP_RGBA THEN 5
    ELSE IF b1 = QOI_OP_RGB THEN 4
    ELSE IF b1 >= QOI_OP_LUMA /\ b1 < QOI_OP_RUN THEN 2
    ELSE 1

\* the pixel an op-code other than RUN reconstructs
op_pixel(op, px, idx) ==
    LET b1 == op[1]
    IN  IF b1 = QOI_OP_RGBA THEN <<op[2], op[3], op[4], op[5]>>
        ELSE IF b1 = QOI_OP_RGB THEN <<op[2], op[3], op[4], px[4]>>
        ELSE IF b1 < QOI_OP_DIFF THEN idx[b1]
        ELSE IF b1 < QOI_OP_LUMA
        THEN << (px[1] + ((b1 \div 16) % 4) + 254) % 256,
                (px[2] + ((b1 \div 4) % 4) + 254) % 256,
                (px[3] + (b1 % 4) + 254) % 256,
                px[4] >>
        ELSE LET vg == (b1 % 64) + 224
             IN  << (px[1] + vg + (op[2] \div 16) + 248) % 256,
                    (px[2] + vg) % 256,
                    (px[3] + vg + (op[2] % 16) + 248) % 256,
                    px[4] >>

\* one op-code of the stream
DecodeOp ==
    /\ pc = "decode"
    /\ LET N == dec.header.channels
           total == n_pixels_of(dec.header) * N
           left == (total - Len(dec.pixels)) \div N
           avail == Len(Output) - dec.pos + 1
           b1 == Output[dec.pos]
           op == SubSeq(Output, dec.pos, dec.pos + op_len(b1) - 1)
           is_run == b1 >= QOI_OP_RUN /\ b1 < QOI_OP_RGB
           count == IF is_run THEN (b1 % 64) + 1 ELSE 1
           px == IF is_run THEN dec.px ELSE op_pixel(op, dec.px, dec.index)
           updates == ~is_run /\ b1 >= QOI_OP_DIFF
       IN  /\ Len(dec.pixels) < total
           /\ IF avail < 1 \/ avail < op_len(b1)
              THEN /\ dec' = [dec EXCEPT !.kind = "UnexpectedEndOfStream"]
                   /\ pc' = "decoded"
              ELSE IF count > left
              THEN /\ dec' = [dec EXCEPT !.kind = "TooManyPixels"]
                   /\ pc' = "decoded"
              ELSE /\ dec' = [dec EXCEPT
                                !.pos = @ + op_len(b1),
                                !.px = px,
                                !.index = IF updates
                                          THEN [@ EXCEPT ![hash_index(px)] = px]
                                          ELSE @,
                                !.pixels = @ \o Flatten([k \in 1..count |-> SubSeq(px, 1, N)])]
                   /\ pc' = "decode"
    /\ UNCHANGED <<bfsVars, workers>>
    /\ UNCHANGED <<data, width, height, header, buf_len, head, buf, encVars,
                   islands, result, run_no, prev_out, idec>>

\* after the last pixel: the padding marker, then Islands::decode on the
\* trailing bytes with the header's island count
DecodeTrailer ==
    /\ pc = "decode"
    /\ Len(dec.pixels) = n_pixels_of(dec.header) * dec.header.channels
    /\ LET marker == SubSeq(Output, dec.pos, dec.pos + QOI_PADDING_SIZE - 1)
           trailing == SubSeq(Output, dec.pos + QOI_PADDING_SIZE, Len(Output))
           r == Islands_decode(trailing, dec.header.n_islands)
       IN  IF marker # QOI_PADDING
           THEN /\ dec' = [dec EXCEPT !.kind = "InvalidPadding"]
                /\ idec' = idec
           ELSE /\ dec' = [dec EXCEPT !.kind = r.kind, !.pos = Len(Output) + 1]
                /\ idec' = [data |-> trailing, n_islands |-> dec.header.n_islands,
                            kind |-> r.kind, islands |-> r.islands]
    /\ pc' = "decoded"
    /\ UNCHANGED <<bfsVars, workers>>
    /\ UNCHANGED <<data, width, height, header, buf_len, head, buf, encVars,
                   islands, result, run_no, prev_out>>

---------------------------------------------------------------------------
(* Islands::decode on its own *)

\* a bound: the trailing bytes hold at most MaxRecords records
MaxRecords ==
    2

Coords ==
    {0, 1, 258}

\* the records of single-point islands at Coords x Coords
PointRecords ==
    { island_record([top_left |-> <<r, c>>, btm_right |-> <<r, c>>]) :
        r \in Coords, c \in Coords }

RecordSeqs ==
    UNION { [1..k -> PointRecords] : k \in 0..MaxRecords }

\* whole records with the last 0..chunk_size-1 bytes cut off
TrailingBytes ==
    { SubSeq(Flatten(rs), 1, Len(Flatten(rs)) - cut) :
        rs \in RecordSeqs, cut \in 0..(chunk_size - 1) }

InitIslandsDecode ==
    /\ data = << >>
    /\ width = 0
    /\ height = 0
    /\ pc = "islands_decode"
    /\ header = NoHeader
    /\ buf_len = 0
    /\ head = << >>
    /\ buf = NoBuf
    /\ EncIdle
    /\ BfsIdle
    /\ WorkersIdle
    /\ islands = << >>
    /\ result = NoResult
    /\ run_no = 1
    /\ prev_out = [kind |-> "None", bytes |-> << >>]
    /\ dec = NoDec
    /\ \E d \in TrailingBytes, n \in 0..(MaxRecords + 1) :
         idec = [data |-> d, n_islands |-> n, kind |-> "None", islands |-> {}]

\* Islands::decode(data, n_islands)
IslandsDecodeCall ==
    /\ pc = "islands_decode"
    /\ LET r == Islands_decode(idec.data, idec.n_islands)
       IN  idec' = [idec EXCEPT !.kind = r.kind, !.islands = r.islands]
    /\ pc' = "islands_decoded"
    /\ UNCHANGED <<bfsVars, workers>>
    /\ UNCHANGED <<data, width, height, header, buf_len, head, buf, encVars,
                   islands, result, run_no, prev_out, dec>>

SpecIslandsDecode ==
    InitIslandsDecode /\ [][IslandsDecodeCall]_vars

---------------------------------------------------------------------------
---------------------------------------------------------------------------
(* One encode call on its own: Encoder::new, encode_to_vec or encode_to_buf *)

NextEncode ==
    \/ EncoderNew
    \/ encode_to_vec
    \/ encode_to_buf
    \/ PixelStep
    \/ FindIslands
    \/ WriteTrailer

SpecEncode ==
    Init /\ [][NextEncode]_vars

Next ==
    \/ EncoderNew
    \/ encode_to_vec
    \/ encode_to_buf
    \/ PixelStep
    \/ FindIslands
    \/ WriteTrailer
    \/ EncodeAgain
    \/ DecodeStart
    \/ DecodeOp
    \/ DecodeTrailer

Spec ==
    Init /\ [][Next]_vars

---------------------------------------------------------------------------
(* Vocabulary of the properties *)

ValidInput ==
    Encoder_new_result(data, width, height) = "Ok"

Channels ==
    Len(data) \div (width * height)

\* the coordinates of the pixels that differ from the all-zero pixel
ForegroundPoints ==
    { <<k \div width, k % width>> :
        k \in { j \in 0..((Len(data) \div Channels) - 1) :
                  chunk_at(data, Channels, j) # Pixel_new(Channels) } }

Adjacent(p, q) ==
    \/ p[1] = q[1] /\ (p[2] = q[2] + 1 \/ q[2] = p[2] + 1)
    \/ p[2] = q[2] /\ (p[1] = q[1] + 1 \/ q[1] = p[1] + 1)

RECURSIVE Region(_, _)
\* the 4-connected region of S that contains C
Region(S, C) ==
    LET C2 == C \cup { q \in S : \E p \in C : Adjacent(p, q) }
    IN  IF C2 = C THEN C ELSE Region(S, C2)

Regions(S) ==
    { Region(S, {p}) : p \in S }

BucketsOf(C) ==
    { p[1] % threads : p \in C }

InBox(p, island) ==
    /\ island.top_left[1] <= p[1] /\ p[1] <= island.btm_right[1]
    /\ island.top_left[2] <= p[2] /\ p[2] <= island.btm_right[2]

\* the islands reported for region C: those whose top-left corner lies in it
IslandsOf(C) ==
    { k \in 1..Len(islands) : islands[k].top_left \in C }

IslandRecords ==
    Flatten([k \in 1..Len(islands) |-> island_record(islands[k])])

\* the call was given a buffer of exactly required_buf_len() bytes
ExactBuffer ==
    buf_len = required_buf_len(header)

---------------------------------------------------------------------------
(* C1..C10 *)

\* C1 (as claimed): round trip - for every valid input, encode returns bytes
\* and decoding them by the op-code rules yields the input pixel buffer.
C1_RoundTrip ==
    /\ (pc = "done" /\ ValidInput /\ ExactBuffer) => result.kind = "Ok"
    /\ pc = "decoded" => dec.pixels = data

\* C2 (as claimed): encode into a buffer of required_buf_len() bytes fails
\* if and only if width * height = 0: no write runs out of capacity.
C2_FailsIffEmpty ==
    pc = "done" =>
      /\ width * height = 0 => result.kind # "Ok"
      /\ (ValidInput /\ ExactBuffer) => result.kind = "Ok"

C5_SingleForegroundPixel ==
    (pc = "done" /\ ValidInput /\ ExactBuffer /\ Cardinality(ForegroundPoints) = 1) =>
      /\ result.kind = "Ok"
      /\ header.n_islands = 1
      /\ \A p \in ForegroundPoints :
           islands = << [top_left |-> p, btm_right |-> p] >>

\* C6: for an all-zero pixel buffer of any valid size and channel count no
\* foreground point is recorded, no island is found, encode succeeds with an
\* island count of 0 and no island record, and the decoded Islands are empty.
C6_BackgroundOnly ==
    (ValidInput /\ ForegroundPoints = {}) =>
      /\ \A b \in 0..(threads - 1) : points[b] = {}
      /\ islands = << >>
      /\ (pc = "done" /\ ~buffer_too_small(buf_len, required_buf_len(header))) =>
           /\ result.kind = "Ok"
           /\ header.n_islands = 0
           /\ Len(buf.bytes) <= width * height + QOI_PADDING_SIZE
      /\ pc = "decoded" =>
           /\ dec.kind = "Ok"
           /\ idec.kind = "Ok"
           /\ idec.islands = {}

C6_Witness ==
    /\ ValidInput
    /\ ForegroundPoints = {}
    /\ Channels = 4
    /\ width * height > 1
    /\ pc = "decoded"
    /\ idec.kind = "Ok"

\* C7 (as claimed): a 4-connected foreground region whose rows fall into two
\* different buckets is reported as two islands, one per bucket, and the
\* union of the reported boxes contains every point of the region.
C7_TwoIslands ==
    (pc = "islands" /\ ValidInput) =>
      \A C \in Regions(ForegroundPoints) :
        Cardinality(BucketsOf(C)) = 2 =>
          /\ Cardinality(IslandsOf(C)) = 2
          /\ \A p \in C : \E k \in IslandsOf(C) : InBox(p, islands[k])

\* C7 (amended): such a region is reported as two or more islands - at least
\* one in each of its two buckets, none reaching into both - and the union of
\* the reported boxes contains every point of the region.
C7_SplitAcrossBuckets ==
    (pc = "islands" /\ ValidInput) =>
      \A C \in Regions(ForegroundPoints) :
        Cardinality(BucketsOf(C)) = 2 =>
          /\ Cardinality(IslandsOf(C)) >= 2
          /\ \A b \in BucketsOf(C) :
               \E k \in IslandsOf(C) : islands[k].top_left[1] % threads = b
          /\ \A k \in IslandsOf(C) :
               islands[k].top_left[1] % threads = islands[k].btm_right[1] % threads
          /\ \A p \in C : \E k \in IslandsOf(C) : InBox(p, islands[k])

C7_Witness ==
    /\ pc = "islands"
    /\ ValidInput
    /\ \E C \in Regions(ForegroundPoints) :
         /\ Cardinality(BucketsOf(C)) = 2
         /\ Cardinality(IslandsOf(C)) = 3

\* C8 (as claimed): Islands::decode never panics, and returns a truncation
\* error when data holds fewer full 16-byte records than n_islands.
C8_TruncationIsAnError ==
    pc = "islands_decoded" =>
      /\ idec.kind # "Panic"
      /\ Len(idec.data) \div chunk_size < idec.n_islands
           => idec.kind = "IslandRecordTruncated"

\* C9: encode_to_buf with a buffer shorter than required_buf_len() returns
\* OutputBufferTooSmall carrying the buffer's size and the required size, and
\* has then written nothing to the buffer nor changed n_encode and n_islands.
C9_BufferTooSmall ==
    /\ (pc = "done" /\ ValidInput /\ buf_len < required_buf_len(header)) =>
         result.kind = "OutputBufferTooSmall"
    /\ result.kind = "OutputBufferTooSmall" =>
         /\ result.size = buf_len
         /\ result.required = required_buf_len(header)
         /\ result.size < result.required
         /\ Output = << >>
         /\ header.n_encode = 0
         /\ header.n_islands = 0

C9_Witness ==
    /\ pc = "done"
    /\ result.kind = "OutputBufferTooSmall"
    /\ ForegroundPoints # {}

\* C10 (as claimed): two successful runs of encode on the same pixel buffer,
\* width and height return byte-for-byte identical output.
C10_Deterministic ==
    (pc = "done" /\ run_no = 2 /\ ExactBuffer
       /\ result.kind = "Ok" /\ prev_out.kind = "Ok") =>
      Output = prev_out.bytes

---------------------------------------------------------------------------
(* Encoder::new on its own: buffers of every length for small dimensions *)

\* a bound: width and height of the inputs of SpecEncoderNew are 0..MaxNewDim
MaxNewDim ==
    2

\* a bound: the buffers handed to Encoder::new hold 0..MaxNewLen bytes
MaxNewLen ==
    17

NewInputs ==
    { [data |-> [k \in 1..n |-> 1], width |-> w, height |-> h] :
        n \in 0..MaxNewLen, w \in 0..MaxNewDim, h \in 0..MaxNewDim }

\* the state before Encoder::new is called on one of the inputs imgs
StartWith(imgs) ==
    /\ \E img \in imgs :
         /\ data = img.data
         /\ width = img.width
         /\ height = img.height
    /\ pc = "new"
    /\ header = NoHeader
    /\ buf_len = 0
    /\ head = << >>
    /\ buf = NoBuf
    /\ EncIdle
    /\ BfsIdle
    /\ WorkersIdle
    /\ islands = << >>
    /\ result = NoResult
    /\ run_no = 1
    /\ prev_out = [kind |-> "None", bytes |-> << >>]
    /\ dec = NoDec
    /\ idec = NoIdec

InitEncoderNew ==
    StartWith(NewInputs)

SpecEncoderNew ==
    InitEncoderNew /\ [][EncoderNew]_vars

---------------------------------------------------------------------------
(* The pixel pass of the encoder on images made of long runs *)

\* a bound: the last segment of a run image holds at most MaxTrail pixels
MaxTrail ==
    126

\* the colours of the run images: the zero pixel, the pixel the encoder
\* starts from, and a foreground colour
RunPalette(N) ==
    { Pixel_new(N), with_a(Pixel_new(N), 255), Foreground(N) }

\* lengths of the first segment: none, short, and longer than a full run
LeadLens ==
    {0, 1, 2, MaxRun + 1}

\* lengths of the last segment: around one and around two full runs
TrailLens ==
    {1} \cup { n \in (MaxRun - 1)..MaxTrail : n <= MaxRun + 2 \/ n >= 2 * MaxRun }

\* the one-row image of la pixels a followed by lb pixels b
RunImage(N, a, la, b, lb) ==
    [data |-> [j \in 1..(N * (la + lb)) |->
                 IF j <= N * la THEN a[((j - 1) % N) + 1] ELSE b[((j - 1) % N) + 1]],
     width |-> la + lb, height |-> 1]

\* one-row images of two segments of one colour each
RunImages ==
    UNION { { RunImage(N, a, la, b, lb) :
                a \in RunPalette(N), b \in RunPalette(N),
                la \in LeadLens, lb \in TrailLens }
            : N \in {3, 4} }

InitRuns ==
    StartWith(RunImages)

\* Encoder::new, encode_to_vec and the pixel loop of encode_impl, up to the
\* end of the loop
NextRuns ==
    \/ EncoderNew
    \/ encode_to_vec
    \/ PixelStep

SpecRuns ==
    InitRuns /\ [][NextRuns]_vars

\* the k-th pixel of the input, k from 0, and the pixel the encoder compares
\* it with
PixelAt(k) ==
    chunk_at(data, header.channels, k)

PrevOf(k) ==
    IF k = 0 THEN with_a(Pixel_new(header.channels), 255) ELSE PixelAt(k - 1)

NPixels ==
    Len(data) \div header.channels

IsRunRecord(b) ==
    b >= QOI_OP_RUN /\ b < QOI_OP_RGB

RECURSIVE OpHeads(_)
\* the first byte of every op-code of an op-code stream
OpHeads(bs) ==
    IF bs = << >> THEN << >>
    ELSE <<bs[1]>> \o OpHeads(SubSeq(bs, op_len(bs[1]) + 1, Len(bs)))

\* the pixels an op-code stands for: the run length of a run record, one
\* for every other op-code
PixelsOf(b) ==
    IF IsRunRecord(b) THEN b - QOI_OP_RUN + 1 ELSE 1

RECURSIVE SumPixels(_)
SumPixels(hs) ==
    IF hs = << >> THEN 0 ELSE PixelsOf(hs[1]) + SumPixels(Tail(hs))

PixelsIn(bs) ==
    SumPixels(OpHeads(bs))

\* the run records at the end of an op-code stream
TrailingRunRecords(bs) ==
    LET hs == OpHeads(bs)
        others == { k \in 1..Len(hs) : ~IsRunRecord(hs[k]) }
    IN  Cardinality({ k \in 1..Len(hs) : \A j \in others : j < k })

\* the length of the run of identical pixels the image ends in
TrailingRunLen ==
    LET breaks == { k \in 1..(NPixels - 1) : PixelAt(k) # PixelAt(k - 1) }
    IN  Cardinality({ k \in 0..(NPixels - 1) : \A j \in breaks : j <= k })

\* the number of pixels at the end of the image that equal the pixel the
\* encoder compares them with
TrailingRepeats ==
    LET breaks == { k \in 0..(NPixels - 1) : PixelAt(k) # PrevOf(k) }
    IN  Cardinality({ k \in 0..(NPixels - 1) : \A j \in breaks : j < k })

\* the run counter stays in 0..62, no pixel is dropped while the loop runs,
\* and the counter is 0 after the last pixel
NoDroppedPixels ==
    /\ run \in 0..MaxRun
    /\ pc = "loop" =>
         /\ PixelsIn(buf.bytes) + run = i
         /\ i = NPixels => (run = 0 /\ PixelsIn(buf.bytes) = NPixels)

\* C12 as stated: the run counter stays in 0..62 and is 0 after the last
\* pixel, the op-codes stand for n_pixels pixels, and an image ending in a
\* run of more than 62 identical pixels ends in at least two run records
C12_RunBoundary ==
    /\ NoDroppedPixels
    /\ (pc = "loop" /\ i = NPixels /\ TrailingRunLen > MaxRun) =>
         TrailingRunRecords(buf.bytes) >= 2

\* C12: the run counter stays in 0..62 and is 0 after the last pixel, the
\* op-codes stand for n_pixels pixels, and an image ending in more than 62
\* pixels that each equal the pixel before (the start pixel for the first)
\* ends in at least two run records
C12_RunBoundaryRepeats ==
    /\ NoDroppedPixels
    /\ (pc = "loop" /\ i = NPixels /\ TrailingRepeats > MaxRun) =>
         TrailingRunRecords(buf.bytes) >= 2

\* the loop has finished an image that ends in more than two full runs
C12_Witness ==
    /\ pc = "loop"
    /\ i = NPixels
    /\ TrailingRepeats > 2 * MaxRun
    /\ TrailingRunRecords(buf.bytes) = 3

---------------------------------------------------------------------------
(* C13: what a flush of the run counter emits *)

\* the loop takes the pixel PixelAt(i)
LoopStep ==
    pc = "loop" /\ i' = i + 1

\* the bytes the step appends to the buffer
Emitted ==
    SubSeq(buf'.bytes, Len(buf.bytes) + 1, Len(buf'.bytes))

\* a pixel equal to the previous one is counted, and emits nothing but the
\* run record of a counter flushed at the maximum or at the end of stream
RepeatStep ==
    (LoopStep /\ PixelAt(i) = px_prev) =>
      IF run' = 0
      THEN /\ run + 1 = MaxRun \/ i = NPixels - 1
           /\ Emitted = << QOI_OP_RUN + (run + 1) - 1 >>
      ELSE /\ run' = run + 1
           /\ Emitted = << >>

\* a different pixel arrives while the run counter is not 0
BreakStep ==
    LoopStep /\ PixelAt(i) # px_prev /\ run # 0

\* C13 as stated: every flush of a non-zero run counter emits a run record
\* of the run length minus one, and a pixel equal to the previous pixel is
\* emitted as nothing else
C13_FlushEmitsRun ==
    [][ /\ RepeatStep
        /\ BreakStep => (run' = 0 /\ Head(Emitted) = QOI_OP_RUN + run - 1) ]_vars

\* C13: every flush of a non-zero run counter emits a run record of the run
\* length minus one, but for a counter of 1 flushed by a different pixel
\* after some pixel has differed from its predecessor: that single repeat is
\* emitted as the INDEX op-code of the previous pixel's slot, which holds
\* the previous pixel
C13_FlushEmitsRunOrIndex ==
    [][ /\ RepeatStep
        /\ BreakStep =>
             /\ run' = 0
             /\ IF run = 1 /\ index_allowed
                THEN /\ Head(Emitted) = QOI_OP_INDEX + hash_index(as_rgba(px_prev, 255))
                     /\ index[hash_index(as_rgba(px_prev, 255))] = as_rgba(px_prev, 255)
                ELSE Head(Emitted) = QOI_OP_RUN + run - 1 ]_vars

\* a single repeat of the first pixel has been flushed as an INDEX op-code
C13_Witness ==
    /\ pc = "loop"
    /\ i = 3
    /\ PixelAt(0) # PrevOf(0)
    /\ PixelAt(1) = PixelAt(0)
    /\ PixelAt(2) # PixelAt(1)
    /\ OpHeads(buf.bytes)[2] = QOI_OP_INDEX + hash_index(as_rgba(PixelAt(0), 255))

---------------------------------------------------------------------------
\* C14: while the loop runs, px_prev is the last pixel taken; index_allowed
\* is set exactly when some pixel taken differed from the pixel before it,
\* and then hash_prev is the slot of px_prev and the slot holds px_prev (as
\* RGBA with alpha 0xff for 3 channels), so INDEX | hash_prev denotes the
\* pixel a run of length 1 repeats
C14_IndexCache ==
    pc = "loop" =>
      /\ i > 0 => px_prev = PixelAt(i - 1)
      /\ index_allowed <=> (\E k \in 0..(i - 1) : PixelAt(k) # PrevOf(k))
      /\ index_allowed =>
           /\ hash_prev = hash_index(as_rgba(px_prev, 255))
           /\ index[hash_prev] = as_rgba(px_prev, 255)

\* a single repeat is pending after a pixel that differed from its
\* predecessor
C14_Witness ==
    /\ pc = "loop"
    /\ index_allowed
    /\ run = 1
    /\ i = 2
    /\ index[hash_prev] = as_rgba(PixelAt(0), 255)
    /\ PixelAt(0) # <<0, 0, 0, 0>>

---------------------------------------------------------------------------
\* the coordinates of the non-zero pixels among the first n pixels
NonZeroPoints(n) ==
    { <<k \div header.width, k % header.width>> :
        k \in { j \in 0..(n - 1) : PixelAt(j) # Pixel_new(header.channels) } }

\* C15: while the loop runs and after the pixel pass, the tracked (row, col)
\* of the pixel taken last is (i div width, i mod width); a point (r, c) is
\* in bucket r mod 8 exactly when its pixel is taken and differs from the
\* all-zero pixel; the 8 buckets are pairwise disjoint and their union is
\* the set of the coordinates of the non-zero pixels
C15_Bucketing ==
    pc = "loop" =>
      /\ i > 0 => (row = (i - 1) \div header.width /\ col = (i - 1) % header.width)
      /\ DOMAIN points = 0..7
      /\ \A b \in DOMAIN points :
           points[b] = { p \in NonZeroPoints(i) : p[1] % 8 = b }
      /\ \A b, c \in DOMAIN points : b # c => points[b] \cap points[c] = {}
      /\ UNION { points[b] : b \in DOMAIN points } = NonZeroPoints(i)

\* the pixel pass is over for an image of 9 rows with a non-zero pixel in
\* rows 0 and 8, both in bucket 0
C15_Witness ==
    /\ pc = "loop"
    /\ i = NPixels
    /\ header.height = 9
    /\ points[0] = { <<0, 0>>, <<8, 0>> }

---------------------------------------------------------------------------
(* Islands::try_new and bfs on their own, one loop iteration per step *)

\* a bound: the points handed to Islands::try_new have rows and columns
\* 0..MaxCoord
MaxCoord ==
    2

\* a bound: the sets handed to Islands::try_new hold at most MaxPts points
MaxPts ==
    4

PointSets ==
    { s \in SUBSET ((0..MaxCoord) \X (0..MaxCoord)) : Cardinality(s) <= MaxPts }

InitIslands ==
    /\ data = << >>
    /\ width = 0
    /\ height = 0
    /\ pc = "try_new"
    /\ header = NoHeader
    /\ buf_len = 0
    /\ head = << >>
    /\ buf = NoBuf
    /\ EncIdle
    /\ WorkersIdle
    /\ islands = << >>
    /\ result = NoResult
    /\ run_no = 1
    /\ prev_out = [kind |-> "None", bytes |-> << >>]
    /\ dec = NoDec
    /\ idec = NoIdec
    /\ point_set \in PointSets
    /\ used = {}
    /\ found = {}
    /\ cur_island = NoIsland
    /\ queue = << >>
    /\ marked = {}

\* what the island steps leave alone
UnchangedByIslands ==
    UNCHANGED <<data, width, height, header, buf_len, head, buf, encVars,
                islands, result, run_no, prev_out, dec, idec, workers>>

\* `for point in points`, `if !used_points.contains(point)`: the loop comes
\* to a point not yet used, in the unspecified order of the HashSet, and
\* calls bfs, which enqueues it
TryNewCallsBfs ==
    /\ pc = "try_new"
    /\ \E point \in point_set \ used :
         queue' = <<point>>
    /\ cur_island' = NoIsland
    /\ marked' = {}
    /\ pc' = "bfs"
    /\ UNCHANGED <<point_set, used, found>>
    /\ UnchangedByIslands

\* one iteration of `while let Some(point) = q.pop_front()`
BfsStep ==
    /\ pc = "bfs"
    /\ queue # << >>
    /\ LET point == Head(queue)
       IN  IF bfs_visits(point, point_set, used)
           THEN /\ used' = used \cup {point}
                /\ marked' = marked \cup {point}
                /\ cur_island' = grow_box(cur_island, point)
                /\ queue' = Tail(queue) \o neighbours(point)
           ELSE /\ queue' = Tail(queue)
                /\ UNCHANGED <<used, marked, cur_island>>
    /\ UNCHANGED <<pc, point_set, found>>
    /\ UnchangedByIslands

\* the queue is empty: bfs returns and try_new inserts the island
BfsReturns ==
    /\ pc = "bfs"
    /\ queue = << >>
    /\ found' = IF cur_island.top_left # None /\ cur_island.btm_right # None
                THEN found \cup {cur_island}
                ELSE found
    /\ pc' = "try_new"
    /\ UNCHANGED <<point_set, used, cur_island, queue, marked>>
    /\ UnchangedByIslands

\* the loop has been through every point: Ok(Islands { islands })
TryNewReturns ==
    /\ pc = "try_new"
    /\ point_set \subseteq used
    /\ pc' = "try_new_done"
    /\ UNCHANGED bfsVars
    /\ UnchangedByIslands

NextIslands ==
    \/ TryNewCallsBfs
    \/ BfsStep
    \/ BfsReturns
    \/ TryNewReturns

SpecIslands ==
    InitIslands /\ [][NextIslands]_vars

---------------------------------------------------------------------------
(* Properties of Islands::try_new and bfs *)

MinOf(S) ==
    CHOOSE x \in S : \A y \in S : x <= y

MaxOf(S) ==
    CHOOSE x \in S : \A y \in S : x >= y

\* the bounding box of a non-empty set of points
BoxOf(S) ==
    [top_left |-> << MinOf({ p[1] : p \in S }), MinOf({ p[2] : p \in S }) >>,
     btm_right |-> << MaxOf({ p[1] : p \in S }), MaxOf({ p[2] : p \in S }) >>]

\* C16: during bfs and when it returns, the island is the bounding box -
\* (minimum row, minimum column), (maximum row, maximum column) - of exactly
\* the points the call has marked, for every point set and start point
C16_BoundingBox ==
    pc = "bfs" =>
      /\ marked = {} => (queue # << >> /\ cur_island = NoIsland)
      /\ marked # {} => cur_island = BoxOf(marked)

\* bfs returns having marked an L-shaped component whose box has a corner
\* that is no point of it
C16_Witness ==
    /\ pc = "bfs"
    /\ queue = << >>
    /\ marked = { <<0, 1>>, <<1, 1>>, <<1, 0>> }
    /\ cur_island = [top_left |-> <<0, 0>>, btm_right |-> <<1, 1>>]

\* C17: every traversal of Islands::try_new marks exactly one maximal
\* 4-connected component, none of whose points was used before; between
\* traversals there is one island per component traversed, its bounding box;
\* at the end used_points is the input set and the number of islands is the
\* number of maximal 4-connected components
C17_OneIslandPerComponent ==
    LET components == Regions(point_set)
        before == used \ marked
        traversed == { C \in components : C \subseteq used }
    IN  /\ pc = "bfs" =>
             /\ before = UNION { C \in components : C \subseteq before }
             /\ marked \cap before = {}
             /\ \E C \in components : marked \subseteq C
             /\ queue = << >> => marked \in components
        /\ pc \in {"try_new", "try_new_done"} =>
             /\ used = UNION traversed
             /\ found = { BoxOf(C) : C \in traversed }
             /\ Cardinality(found) = Cardinality(traversed)
        /\ pc = "try_new_done" =>
             /\ used = point_set
             /\ Cardinality(found) = Cardinality(components)

\* try_new has returned three islands for a set of three components
C17_Witness ==
    /\ pc = "try_new_done"
    /\ Cardinality(point_set) = 4
    /\ Cardinality(Regions(point_set)) = 3
    /\ Cardinality(found) = 3

---------------------------------------------------------------------------
\* a natural number that every step of try_new and bfs lowers: 12 for each
\* point not yet used (a visit uses one point and enqueues at most four),
\* 2 for each queued point, and up to 4 for the place in the code
Measure ==
    12 * Cardinality(point_set \ used) + 2 * Len(queue)
      + (IF pc = "try_new" THEN 3 ELSE IF pc = "bfs" /\ marked # {} THEN 4 ELSE 0)

\* what one iteration of the loop of bfs may do: a point is marked only if
\* it is in the set and not yet used, and then at most four neighbours are
\* enqueued; any other point is dequeued and nothing else changes
BfsIteration ==
    (pc = "bfs" /\ pc' = "bfs") =>
      IF used' # used
      THEN /\ Head(queue) \in point_set \ used
           /\ used' = used \cup {Head(queue)}
           /\ Len(queue') <= Len(queue) - 1 + 4
      ELSE /\ Head(queue) \notin point_set \ used
           /\ queue' = Tail(queue)
           /\ UNCHANGED <<marked, cur_island, found>>

\* C18: bfs and Islands::try_new terminate on every finite point set: no
\* point is marked twice, a marked point enqueues at most four neighbours,
\* every other dequeued point enqueues nothing, every step lowers Measure,
\* which is never negative, and a step is possible until try_new has returned
C18_Terminates ==
    /\ [](Measure \in Nat)
    /\ [](pc # "try_new_done" => ENABLED NextIslands)
    /\ [][BfsIteration /\ Measure' < Measure]_vars

\* try_new has returned from a set of 4 points after a traversal that
\* dequeued points outside the set and points already used
C18_Witness ==
    /\ pc = "try_new_done"
    /\ point_set = { <<0, 0>>, <<0, 1>>, <<1, 0>>, <<1, 1>> }
    /\ used = point_set
    /\ Cardinality(found) = 1

---------------------------------------------------------------------------
(* The parallel phase of encode_impl, one step per bucket worker *)

\* a bound: the images of SpecPar hold at most MaxParFg non-zero pixels
MaxParFg ==
    2

\* images of two rows, and of one column whose first and last row share a
\* bucket
ParImages ==
    UNION { UNION { { MaskImage(N, d, mask) :
                        mask \in { m \in SUBSET (1..(d[1] * d[2])) :
                                     Cardinality(m) <= MaxParFg } }
                    : d \in { <<2, 2>>, <<1, threads + 1>> } } : N \in {3, 4} }

InitPar ==
    StartWith(ParImages)

\* the closure of `.map(..)` run for bucket b: Islands::find_islands on the
\* bucket's point set, its islands in the order the set is iterated in.
\* rayon runs the 8 closures in any order and on any of its threads.
Worker ==
    /\ pc = "loop"
    /\ i = Len(data) \div header.channels
    /\ \E b \in 0..(threads - 1) :
         /\ workers[b].state = "idle"
         /\ \E s \in find_islands(points[b]) :
              \E out \in Perms(s) :
                workers' = [workers EXCEPT ![b] = [state |-> "done", out |-> out]]
    /\ UNCHANGED bfsVars
    /\ UNCHANGED <<data, width, height, pc, header, buf_len, head, buf, encVars,
                   islands, result, run_no, prev_out, dec, idec>>

RECURSIVE reduce_extend(_, _)
\* `.reduce(|| Vec::new(), |acc, itr| { acc.extend(itr); acc })`: the
\* results of buckets b.. appended in bucket order
reduce_extend(w, b) ==
    IF b = threads THEN << >> ELSE w[b].out \o reduce_extend(w, b + 1)

\* the reduction returns the island list to encode_impl
Join ==
    /\ pc = "loop"
    /\ i = Len(data) \div header.channels
    /\ workers_joined(workers)
    /\ islands' = reduce_extend(workers, 0)
    /\ pc' = "islands"
    /\ UNCHANGED <<bfsVars, workers>>
    /\ UNCHANGED <<data, width, height, header, buf_len, head, buf, encVars,
                   result, run_no, prev_out, dec, idec>>

NextPar ==
    \/ EncoderNew
    \/ encode_to_vec
    \/ PixelStep
    \/ Worker
    \/ Join
    \/ WriteTrailer

SpecPar ==
    InitPar /\ [][NextPar]_vars

\* how often x occurs in the sequence s
CountIn(s, x) ==
    Cardinality({ k \in 1..Len(s) : s[k] = x })

RECURSIVE CountInWorkers(_, _)
\* how often x occurs in the results of the workers of buckets b..
CountInWorkers(b, x) ==
    IF b = threads THEN 0 ELSE CountIn(workers[b].out, x) + CountInWorkers(b + 1, x)

\* the island records in front of the padding of a finished output
RecordsWritten ==
    SubSeq(buf.bytes,
           Len(buf.bytes) - QOI_PADDING_SIZE - chunk_size * Len(islands) + 1,
           Len(buf.bytes) - QOI_PADDING_SIZE)

\* C19: a bucket worker has run only after the pixel pass has finished, and
\* its result is an island list of its own bucket; while a worker has not
\* finished there is no island list and no island record or padding is
\* written; the list serialized holds every island as often as the workers'
\* results together, whatever the order the workers ran in
C19_WorkerBarrier ==
    /\ \A b \in DOMAIN workers :
         workers[b].state = "done" =>
           /\ pc \in {"loop", "islands", "done"}
           /\ i = NPixels
           /\ \E s \in find_islands(points[b]) : workers[b].out \in Perms(s)
    /\ (\E b \in DOMAIN workers : workers[b].state # "done") =>
         /\ pc # "islands"
         /\ islands = << >>
         /\ result.kind \notin {"Ok", "Panic", "WriteFailed"}
         /\ pc = "loop" => PixelsIn(buf.bytes) + run = i
    /\ pc \in {"islands", "done"} /\ result.kind \in {"None", "Ok", "Panic", "WriteFailed"} =>
         /\ DOMAIN workers = 0..7
         /\ \A b \in DOMAIN workers :
              \A k \in 1..Len(workers[b].out) :
                CountIn(islands, workers[b].out[k]) = CountInWorkers(0, workers[b].out[k])
         /\ \A k \in 1..Len(islands) :
              CountIn(islands, islands[k]) = CountInWorkers(0, islands[k])
    /\ (pc = "done" /\ result.kind = "Ok") => RecordsWritten = IslandRecords

\* an image whose two islands come from the workers of two buckets has been
\* encoded
C19_Witness ==
    /\ pc = "done"
    /\ result.kind = "Ok"
    /\ Len(workers[0].out) = 1
    /\ Len(workers[1].out) = 1
    /\ Len(islands) = 2

---------------------------------------------------------------------------
RECURSIVE OpsLen(_, _)
\* the length of the op-codes at the head of bs that stand for n pixels
OpsLen(bs, n) ==
    IF n <= 0 \/ bs = << >> THEN 0
    ELSE op_len(bs[1])
           + OpsLen(SubSeq(bs, op_len(bs[1]) + 1, Len(bs)), n - PixelsOf(bs[1]))

\* C20: after a successful encode_to_buf the header at the front of the
\* buffer carries n_encode = the number of bytes written after the header
\* = op-code bytes + 16 * number of islands + padding size, and n_islands =
\* the number of island records written; the call returns header size +
\* n_encode; and the header bytes are written only once the whole payload
\* is written: never while the payload is being written, and not at all
\* when the call fails
C20_HeaderBackFill ==
    /\ (pc = "done" /\ result.kind = "Ok") =>
         /\ head = Header_encode(header)
         /\ Header_decode(head).n_encode = Len(buf.bytes)
         /\ Len(buf.bytes) = OpsLen(buf.bytes, NPixels)
                               + chunk_size * Len(islands) + QOI_PADDING_SIZE
         /\ Header_decode(head).n_islands = Len(islands)
         /\ SubSeq(buf.bytes, OpsLen(buf.bytes, NPixels) + 1, Len(buf.bytes))
              = IslandRecords \o QOI_PADDING
         /\ result.size = QOI_HEADER_SIZE + Header_decode(head).n_encode
    /\ pc \in {"new", "ready", "loop", "islands"} => head = << >>
    /\ (pc = "done" /\ result.kind # "Ok") => head = << >>
    /\ head # << >> => (buf.ok /\ Len(head) = QOI_HEADER_SIZE)

\* a successful call has written the header for an output with one island
C20_Witness ==
    /\ pc = "done"
    /\ result.kind = "Ok"
    /\ Len(islands) = 1
    /\ Header_decode(head).n_islands = 1
    /\ Header_decode(head).n_encode = Len(buf.bytes)
    /\ Len(buf.bytes) > chunk_size + QOI_PADDING_SIZE

---------------------------------------------------------------------------
(* Islands::encode followed by Islands::decode *)

\* a bound: the island sets handed to Islands::encode hold at most
\* MaxCodecIslands islands
MaxCodecIslands ==
    2

\* coordinates whose four bytes differ from each other
CodecCoords ==
    {258, 16909060}

\* islands with both corners present: every choice of the four integers
\* over CodecCoords, the all-zero island and an island of coordinates with
\* the top byte 0x7f (the integers of TLC end at 2^31 - 1)
CodecIslands ==
    { [top_left |-> <<a, b>>, btm_right |-> <<c, d>>] :
        a \in CodecCoords, b \in CodecCoords, c \in CodecCoords, d \in CodecCoords }
      \cup { [top_left |-> <<0, 0>>, btm_right |-> <<0, 0>>],
             [top_left |-> <<2130706433, 2130706433>>,
              btm_right |-> <<2130706433, 2130706433>>] }

IslandSets ==
    { s \in SUBSET CodecIslands : Cardinality(s) <= MaxCodecIslands }

\* Islands { islands } and a writer one byte short of its records, exactly
\* as long, or longer by one record
InitIslandsCodec ==
    /\ data = << >>
    /\ width = 0
    /\ height = 0
    /\ pc = "islands_encode"
    /\ header = NoHeader
    /\ head = << >>
    /\ EncIdle
    /\ WorkersIdle
    /\ islands = << >>
    /\ result = NoResult
    /\ run_no = 1
    /\ prev_out = [kind |-> "None", bytes |-> << >>]
    /\ dec = NoDec
    /\ idec = NoIdec
    /\ point_set = {}
    /\ used = {}
    /\ cur_island = NoIsland
    /\ queue = << >>
    /\ marked = {}
    /\ found \in IslandSets
    /\ buf_len \in { n \in { chunk_size * Cardinality(found) - 1,
                             chunk_size * Cardinality(found),
                             chunk_size * Cardinality(found) + chunk_size } : n >= 0 }
    /\ buf = BytesMut_new(buf_len)

\* Islands::encode(&self, buf): the set is iterated in an unspecified
\* order; a write that does not fit panics in unwrap.  The caller then
\* hands the bytes written and the number of islands to Islands::decode.
IslandsEncodeCall ==
    /\ pc = "islands_encode"
    /\ \E order \in Perms(found) :
         LET w == Islands_encode(buf, order)
         IN  /\ buf' = w
             /\ IF w.ok
                THEN /\ pc' = "islands_decode"
                     /\ idec' = [data |-> w.bytes, n_islands |-> Cardinality(found),
                                 kind |-> "None", islands |-> {}]
                     /\ result' = result
                ELSE /\ pc' = "done"
                     /\ idec' = idec
                     /\ result' = [kind |-> "Panic", size |-> 0, required |-> 0]
    /\ UNCHANGED <<bfsVars, workers>>
    /\ UNCHANGED <<data, width, height, header, buf_len, head, encVars, islands,
                   run_no, prev_out, dec>>

NextIslandsCodec ==
    \/ IslandsEncodeCall
    \/ IslandsDecodeCall

SpecIslandsCodec ==
    InitIslandsCodec /\ [][NextIslandsCodec]_vars

\* the 32-bit integer whose big-endian bytes are b[p], .., b[p + 3]
BigEndianAt(b, p) ==
    ((b[p] * 256 + b[p + 1]) * 256 + b[p + 2]) * 256 + b[p + 3]

\* the island whose record starts at b[p]: top-left row, top-left column,
\* bottom-right row, bottom-right column
RecordAt(b, p) ==
    [top_left |-> << BigEndianAt(b, p), BigEndianAt(b, p + 4) >>,
     btm_right |-> << BigEndianAt(b, p + 8), BigEndianAt(b, p + 12) >>]

\* C21: for every set S of islands with both corners present, written into
\* a writer that has room for them, Islands::encode writes exactly 16 * |S|
\* bytes, one record of four big-endian 32-bit integers for each island of
\* S, and Islands::decode of those bytes with n_islands = |S| returns S
C21_IslandCodecRoundTrip ==
    /\ (pc # "islands_encode" /\ buf_len >= 16 * Cardinality(found)) =>
         /\ buf.ok
         /\ Len(buf.bytes) = 16 * Cardinality(found)
         /\ \A k \in 1..Len(buf.bytes) : buf.bytes[k] \in 0..255
         /\ { RecordAt(buf.bytes, 16 * k + 1) : k \in 0..(Cardinality(found) - 1) }
              = found
         /\ pc \in {"islands_decode", "islands_decoded"}
         /\ idec.data = buf.bytes
         /\ idec.n_islands = Cardinality(found)
    /\ pc = "islands_decoded" =>
         /\ idec.kind = "Ok"
         /\ idec.islands = found

\* a set of two islands, one of them with a coordinate of four different
\* bytes, has come back from Islands::decode
C21_Witness ==
    /\ pc = "islands_decoded"
    /\ Cardinality(found) = 2
    /\ [top_left |-> <<258, 16909060>>, btm_right |-> <<16909060, 258>>] \in found
    /\ Len(idec.data) = 32
    /\ SubSeq(idec.data, 1, 8) \in { <<0, 0, 1, 2, 1, 2, 3, 4>>, <<0, 0, 0, 0, 0, 0, 0, 0>> }
    /\ idec.islands = found

---------------------------------------------------------------------------
\* the maximal horizontal runs of non-zero pixels: <<row, first column,
\* last column>>
HorizontalRuns ==
    { t \in (0..(height - 1)) \X (0..(width - 1)) \X (0..(width - 1)) :
        /\ t[2] <= t[3]
        /\ \A c \in t[2]..t[3] : <<t[1], c>> \in ForegroundPoints
        /\ <<t[1], t[2] - 1>> \notin ForegroundPoints
        /\ <<t[1], t[3] + 1>> \notin ForegroundPoints }

\* C22: every island the encoder produces lies in one row and is the
\* bounding box of one maximal horizontal run of non-zero pixels of that
\* row, every such run has its island, and the number of islands is the
\* number of the runs
C22_SingleRowIslands ==
    (pc = "islands" /\ ValidInput) =>
      /\ \A k \in 1..Len(islands) :
           islands[k].top_left[1] = islands[k].btm_right[1]
      /\ { islands[k] : k \in 1..Len(islands) }
           = { [top_left |-> <<t[1], t[2]>>, btm_right |-> <<t[1], t[3]>>] :
                 t \in HorizontalRuns }
      /\ Len(islands) = Cardinality(HorizontalRuns)

\* a column of two non-zero pixels and a run of two in the row below have
\* been reported as three one-row islands
C22_Witness ==
    /\ pc = "islands"
    /\ width = 2
    /\ height = 3
    /\ ForegroundPoints = { <<0, 0>>, <<1, 0>>, <<2, 0>>, <<2, 1>> }
    /\ Len(islands) = 3
    /\ \E k \in 1..3 : islands[k] = [top_left |-> <<2, 0>>, btm_right |-> <<2, 1>>]

============================================================================
